---- MODULE Spec2Model ----
(***************************************************************************)
(* Model of src/projectile/main.py (class ProjectileMain): the frame loop  *)
(* of mainloop(), its event handlers, the widget pass, and the lifecycle   *)
(* commands __create / __remove that the "Create" and "Remove" buttons run *)
(* on their own threads (the two buttons are built without                 *)
(* use_thread=False, unlike the two menu buttons at lines 141-147).        *)
(*                                                                         *)
(* Positions are pairs <<x, y>> of integers.  An angle is kept as the      *)
(* reduced direction vector it points along (<<1, 0>> is the angle 0), so  *)
(* that rotations stay exact; see RotatedBack.                             *)
(* The physics engine's integration of positions is outside the model.     *)
(***************************************************************************)
EXTENDS Integers, Sequences, FiniteSets, TLC

(***************************************************************************)
(* Bounds of the model.                                                    *)
(***************************************************************************)
\* most projectiles alive at one time
MaxProjectiles == 2
\* most projectiles alive at one time while the pointer is exercised alone
MaxDragProjectiles == 1
\* most obstacles alive at one time
MaxObstacles == 2
\* most lifecycle commands running on threads at one time
MaxThreads == 1
\* longest text of an entry field
MaxLen == 1
\* largest camera pan offset, counted in pan steps
MaxPan == 1
\* largest zoom level of the camera, counted in zoom steps either way
MaxZoom == 1
\* largest rotation of the camera, counted in rotation steps either way
MaxTurn == 1
\* frames per second (the source default is 60; scaled down, it only sets
\* the length of the message display)
FPS == 1

(***************************************************************************)
(* Program constants.                                                      *)
(***************************************************************************)
impulse == -1000
PanSpeed == 5
ProjectileRadius == 25
NewProjectileRadius == 20

ProjectileIds == 1..MaxProjectiles
ObstacleIds == (MaxProjectiles + 1)..(MaxProjectiles + MaxObstacles)
BodyIds == ProjectileIds \cup ObstacleIds
Threads == 1..MaxThreads
None == 0

E_name == 1
E_multiplier == 2
E_pos_x == 3
E_pos_y == 4
Entries == {E_name, E_multiplier, E_pos_x, E_pos_y}

\* the rectangles the entries are placed at: x, y, width, height
EntryRect(e) ==
    CASE e = E_name -> <<400, 175, 200, 35>>
      [] e = E_multiplier -> <<400, 215, 200, 35>>
      [] e = E_pos_x -> <<400, 255, 95, 35>>
      [] e = E_pos_y -> <<505, 255, 95, 35>>

MSG_CREATE_BUSY == "Can not create object during space step or query"
MSG_REMOVE_BUSY == "Can not remove object during space step or query"
MSG_FILL_ALL == "Please fill all the fields"
MSG_FILL_NAME == "Please fill \"name\" field"

Digits == {"0", "1", "2", "3", "4", "5", "6", "7", "8", "9"}

DigitVal(c) ==
    CASE c = "0" -> 0 [] c = "1" -> 1 [] c = "2" -> 2 [] c = "3" -> 3
      [] c = "4" -> 4 [] c = "5" -> 5 [] c = "6" -> 6 [] c = "7" -> 7
      [] c = "8" -> 8 [] c = "9" -> 9

RECURSIVE AsInt(_)
\* Entry.get(as_type=int) on a non-empty text of digits
AsInt(s) ==
    IF Len(s) = 0 THEN 0
    ELSE 10 * AsInt(SubSeq(s, 1, Len(s) - 1)) + DigitVal(s[Len(s)])

(***************************************************************************)
(* Vectors.                                                                *)
(***************************************************************************)
Abs(n) == IF n < 0 THEN -n ELSE n

RECURSIVE Gcd(_, _)
Gcd(a, b) == IF b = 0 THEN a ELSE Gcd(b, a % b)

Sub(p, q) == <<p[1] - q[1], p[2] - q[2]>>
Add(p, q) == <<p[1] + q[1], p[2] + q[2]>>

\* Vec2d.angle, as the reduced direction of v; atan2(0, 0) is 0
Angle(v) ==
    IF v = <<0, 0>> THEN <<1, 0>>
    ELSE LET g == Gcd(Abs(v[1]), Abs(v[2])) IN <<v[1] \div g, v[2] \div g>>

\* |a|^2 for a direction a
Norm2(a) == a[1] * a[1] + a[2] * a[2]

\* Vec2d.rotated(-angle) of d, times |a|: the rotation by the opposite of
\* the angle of direction a.  Exact (the factor is 1) when a is a unit vector.
RotatedBack(d, a) == <<d[1] * a[1] + d[2] * a[2], d[2] * a[1] - d[1] * a[2]>>

\* A float coordinate is kept as a whole number of 1/Den of a pixel.
Den == 2

\* Python's round() of n/Den: to the nearest integer, a tie to the even one
PyRound(n) ==
    LET q == n \div Den
        r == n % Den
    IN IF 2 * r < Den THEN q
       ELSE IF 2 * r > Den THEN q + 1
       ELSE IF q % 2 = 0 THEN q ELSE q + 1

\* pymunk.pygame_util.to_pygame of a point given in 1/Den of a pixel, with
\* positive_y_is_up left at its default (False): round(p[0]), round(p[1])
RoundPoint(p) == <<PyRound(p[1]), PyRound(p[2])>>

\* pymunk.pygame_util.to_pygame of a point given in whole pixels
to_pygame(p) == RoundPoint(<<p[1] * Den, p[2] * Den>>)

\* pymunk.pygame_util.from_pygame(p, surface) is to_pygame(p, surface)
from_pygame(p) == to_pygame(p)

VARIABLES
    pc,              \* where the frame loop is
    crashed,         \* why the frame loop died: "none" or the exception
    ready_to_step,   \* self.__ready_to_step
    during_query,    \* self.__during_query
    show_info,       \* self.__show_info
    info_frame,      \* self.__info_frame
    label_info,      \* text of self.__label_info
    selected_object, \* self.__selected_object
    object_queue,    \* self.__object_queue
    objects,         \* self.__objects: the tracked obstacles, in order
    space,           \* the bodies (each with its shape) of self.__space, in insertion order
    bodies,          \* the data of each live body
    active_shape,    \* self.__active_shape
    pulling,         \* self.__pulling
    m_position,      \* self.__m_position, <<>> while the attribute does not exist
    entry_text,      \* text of each entry
    entry_status,    \* get_status() of each entry
    camera,          \* <<x_offset, y_offset>> of self.__camera
    camera_transform, \* zoom level and rotation of self.__camera_transform
    q_position,      \* pg_position of the last MOUSEBUTTONDOWN
    q_bodies,        \* bodies the hit test has still to visit
    applied,         \* the impulse of lines 340-341, until line 342 applies it
    th,              \* the lifecycle commands running on threads
    retry            \* history: has a create succeeded after a validation failure

vars == <<pc, crashed, ready_to_step, during_query, show_info, info_frame,
          label_info, selected_object, object_queue, objects, space, bodies,
          active_shape, pulling, m_position, entry_text, entry_status, camera,
          camera_transform, q_position, q_bodies, applied, th, retry>>

flagVars == <<ready_to_step, during_query>>
infoVars == <<show_info, info_frame, label_info>>
kindVars == <<selected_object, object_queue>>
engineVars == <<objects, space, bodies>>
dragVars == <<active_shape, pulling, m_position>>
entryVars == <<entry_text, entry_status>>
queryVars == <<q_position, q_bodies>>
cameraVars == <<camera, camera_transform>>

NoBody == [type |-> "NONE", pos |-> <<0, 0>>, radius |-> 0, angle |-> <<1, 0>>]
NoImpulse == [body |-> None, pos |-> <<0, 0>>, p1 |-> <<0, 0>>, p2 |-> <<0, 0>>,
              angle |-> <<1, 0>>, x |-> 0, y |-> 0]
NoTransform == [scaling |-> 0, rotation |-> 0]

\* Projectile(position, radius): a dynamic body with one circle shape
Projectile(position, radius) ==
    [type |-> "DYNAMIC", pos |-> position, radius |-> radius, angle |-> <<1, 0>>]

\* StaticObstacle(name, position, shape, radius= / multiplier=): a static body
\* with one shape whose size is the radius or multiplier
StaticObstacle(position, size) ==
    [type |-> "STATIC", pos |-> position, radius |-> size, angle |-> <<1, 0>>]

IdleThread == [pc |-> "idle", shape |-> "", tmp |-> None, name |-> <<>>,
               idx |-> 0, found |-> FALSE]

SeqIds(s) == {s[i] : i \in 1..Len(s)}
ObjectIds == {objects[i].id : i \in 1..Len(objects)}
EngineIds == SeqIds(space)

\* the ids some reference still holds
Used == EngineIds \cup ObjectIds \cup {th[t].tmp : t \in Threads} \cup {active_shape}
\* the first identity of pool ids that no reference holds
HasFreeId(ids) == \E i \in ids : i \notin Used
NewId(ids) == CHOOSE i \in ids : i \notin Used /\ \A j \in ids : j \notin Used => i <= j

Without(s, x) == SelectSeq(s, LAMBDA y : y # x)

\* any([entry.get_status() for entry in self.__entries])
AnyStatus == \E e \in Entries : entry_status[e]

\* AnyEmpty with a fault seeded: only the name is looked at
AnyEmpty_NameOnly == entry_text[E_name] = <<>>

\* any([not bool(entry.get(False)) for entry in self.__entries])
AnyEmpty == \E e \in Entries : entry_text[e] = <<>>

InRect(e, p) ==
    LET r == EntryRect(e) IN
    /\ r[1] <= p[1] /\ p[1] < r[1] + r[3]
    /\ r[2] <= p[2] /\ p[2] < r[2] + r[4]

Init ==
    /\ pc = "events"
    /\ crashed = "none"
    /\ ready_to_step = FALSE
    /\ during_query = FALSE
    /\ show_info = FALSE
    /\ info_frame = 0
    /\ label_info = ""
    /\ selected_object = "Circle"
    /\ object_queue = <<"Circle", "Square">>
    /\ objects = <<>>
    /\ space = <<1>>
    /\ bodies = [i \in BodyIds |-> IF i = 1 THEN Projectile(<<100, 100>>, ProjectileRadius)
                                   ELSE NoBody]
    /\ active_shape = None
    /\ pulling = FALSE
    /\ m_position = <<>>
    /\ entry_text = [e \in Entries |-> <<>>]
    /\ entry_status = [e \in Entries |-> FALSE]
    /\ camera = <<0, 0>>
    /\ camera_transform = NoTransform
    /\ q_position = <<0, 0>>
    /\ q_bodies = <<>>
    /\ applied = NoImpulse
    /\ th = [t \in Threads |-> IdleThread]
    /\ retry = "none"


(***************************************************************************)
(* Entry widgets: handle_entry_events(event), called for every entry on    *)
(* every event before the loop's own handling (lines 293-294).             *)
(***************************************************************************)
\* regex_filter: the name takes any character, the other entries digits
Accepts(e, k) == IF e = E_name THEN TRUE ELSE k \in Digits

IsChar(k) == k \notin {"ESCAPE", "BACKSPACE"}

\* a pointer press gives the focus to the entry under it and takes it from
\* the others; an entry built with clear_on_focus is emptied as it gains it
StatusAfterPress(p) == [e \in Entries |-> InRect(e, p)]

TextAfterPress(p) ==
    [e \in Entries |-> IF InRect(e, p) /\ ~entry_status[e] THEN <<>> ELSE entry_text[e]]

\* a key goes to the entry that has the focus
TextAfterKey(k) ==
    [e \in Entries |->
        IF ~entry_status[e] THEN entry_text[e]
        ELSE IF k = "BACKSPACE"
             THEN SubSeq(entry_text[e], 1, Len(entry_text[e]) - 1)
        ELSE IF IsChar(k) /\ Accepts(e, k) /\ Len(entry_text[e]) < MaxLen
             THEN Append(entry_text[e], k)
        ELSE entry_text[e]]

(***************************************************************************)
(* Camera: compute_translation_and_scaling(keys) moves the offsets by the  *)
(* pan speed along the held direction; Space resets them.                  *)
(***************************************************************************)
InPan(c) == Abs(c[1]) <= MaxPan * PanSpeed /\ Abs(c[2]) <= MaxPan * PanSpeed

Pan(c, keys) ==
    IF keys = "SPACE" THEN <<0, 0>>
    ELSE LET m == CASE keys = "a" -> <<-1, 0>> [] keys = "d" -> <<1, 0>>
                    [] keys = "w" -> <<0, -1>> [] keys = "s" -> <<0, 1>>
                    [] OTHER -> <<0, 0>>
             n == <<c[1] + PanSpeed * m[1], c[2] + PanSpeed * m[2]>>
         IN IF InPan(n) THEN n ELSE c

\* the zoom level and the rotation after one frame with keys held
Zoom(c, keys) ==
    IF keys = "SPACE" THEN NoTransform
    ELSE LET z == c.scaling + (CASE keys = "zoom_in" -> 1 [] keys = "zoom_out" -> -1
                                 [] OTHER -> 0)
             r == c.rotation + (CASE keys = "turn_left" -> 1 [] keys = "turn_right" -> -1
                                  [] OTHER -> 0)
         IN [scaling |-> IF Abs(z) <= MaxZoom THEN z ELSE c.scaling,
             rotation |-> IF Abs(r) <= MaxTurn THEN r ELSE c.rotation]

\* __handle_camera_movement: the offsets
handle_camera_movement(keys) == IF AnyStatus THEN camera ELSE Pan(camera, keys)

\* __handle_camera_movement: the scaling and rotation handed to the drawing
handle_camera_transform(keys) ==
    IF AnyStatus THEN camera_transform ELSE Zoom(camera_transform, keys)

(***************************************************************************)
(* The two mappings between the screen and the world.                      *)
(***************************************************************************)
\* PressPoint with a fault seeded: the camera offsets are forgotten
PressPoint_NoOffset(p) == from_pygame(p)

\* lines 306-312 (and 271-277, 329-335): the world point of screen point p
PressPoint(p) == from_pygame(Sub(p, camera))

\* lines 352-358: the screen point the overlay is drawn at for world point w
OverlayPoint(w) == to_pygame(Add(w, camera))

\* ReleasePoint with a fault seeded: the offsets are taken off at each mapping
ReleasePoint_Twice(p) == from_pygame(Sub(from_pygame(Sub(p, camera)), camera))

\* lines 329-339: point2, the world point of a release at screen point p
ReleasePoint(p) == from_pygame(PressPoint(p))

(***************************************************************************)
(* Hit test.                                                               *)
(***************************************************************************)
\* IsCandidate with a fault seeded: every body is visited, whatever its type
IsCandidate_AnyType(b) == bodies[b].type # "NONE"

\* body.body_type == pymunk.Body.DYNAMIC
IsCandidate(b) == bodies[b].type = "DYNAMIC"

\* shape.point_query(p).distance < 0: p strictly inside the shape
Inside(p, b) ==
    LET d == Sub(p, bodies[b].pos) IN
    d[1] * d[1] + d[2] * d[2] < bodies[b].radius * bodies[b].radius

\* LaunchImpulse with a fault seeded: the difference is taken the other way round
LaunchImpulse_Swapped(p1, p2, a) ==
    LET r == RotatedBack(Sub(p2, p1), a) IN <<impulse * r[1], impulse * r[2]>>

\* the impulse of a release at world point p2 for a body at p1 with angle a,
\* times |a|
LaunchImpulse(p1, p2, a) ==
    LET r == RotatedBack(Sub(p1, p2), a) IN <<impulse * r[1], impulse * r[2]>>

(***************************************************************************)
(* The frame loop, mainloop().                                             *)
(***************************************************************************)
\* pygame.QUIT seen at the top of the loop
Quit ==
    /\ pc = "events"
    /\ pc' = "stopped"
    /\ UNCHANGED <<crashed, flagVars, infoVars, kindVars, engineVars, dragVars,
                   entryVars, cameraVars, queryVars, applied, th, retry>>

\* KEYDOWN of key k with the mouse at p
KeyDown(k, p) ==
    /\ pc = "events"
    /\ entry_text' = TextAfterKey(k)
    /\ IF k = "ESCAPE"
       THEN /\ pc' = "stopped"
            /\ UNCHANGED <<space, bodies, active_shape>>
       ELSE IF k = "c"
       THEN \* __create_projectile
            /\ pc' = pc
            /\ IF AnyStatus
               THEN UNCHANGED <<space, bodies, active_shape>>
               ELSE /\ HasFreeId(ProjectileIds)
                    /\ bodies' = [bodies EXCEPT ![NewId(ProjectileIds)] =
                          Projectile(PressPoint(p), NewProjectileRadius)]
                    /\ space' = Append(space, NewId(ProjectileIds))
                    /\ UNCHANGED active_shape
       ELSE IF k = "BACKSPACE" /\ active_shape # None
       THEN /\ pc' = pc
            /\ space' = Without(space, active_shape)
            /\ bodies' = [bodies EXCEPT ![active_shape] = NoBody]
            /\ active_shape' = None
       ELSE /\ pc' = pc
            /\ UNCHANGED <<space, bodies, active_shape>>
    /\ UNCHANGED <<crashed, flagVars, infoVars, kindVars, objects, pulling, m_position,
                   entry_status, cameraVars, queryVars, applied, th, retry>>

\* MOUSEBUTTONDOWN with the mouse at p, up to the first point query
MouseButtonDown(p) ==
    /\ pc = "events"
    /\ entry_status' = StatusAfterPress(p)
    /\ entry_text' = TextAfterPress(p)
    /\ active_shape' = None
    /\ q_bodies' = SelectSeq(space, IsCandidate)
    /\ q_position' = PressPoint(p)
    /\ pc' = IF q_bodies' = <<>> THEN "events" ELSE "l317"
    /\ UNCHANGED <<crashed, flagVars, infoVars, kindVars, engineVars, pulling,
                   m_position, cameraVars, applied, th, retry>>

\* line 317
QueryBegin ==
    /\ pc = "l317"
    /\ during_query' = TRUE
    /\ pc' = "l318"
    /\ UNCHANGED <<crashed, ready_to_step, infoVars, kindVars, engineVars, dragVars,
                   entryVars, cameraVars, queryVars, applied, th, retry>>

\* lines 318-324: the query returns
QueryReturn ==
    /\ pc = "l318"
    /\ during_query' = FALSE
    /\ LET b == Head(q_bodies) IN
       IF Inside(q_position, b)
       THEN /\ active_shape' = b
            /\ pulling' = TRUE
            /\ bodies' = [bodies EXCEPT ![b].angle = Angle(Sub(q_position, bodies[b].pos))]
       ELSE UNCHANGED <<active_shape, pulling, bodies>>
    /\ q_bodies' = Tail(q_bodies)
    /\ UNCHANGED q_position
    /\ pc' = IF q_bodies' = <<>> THEN "events" ELSE "l317"
    /\ UNCHANGED <<crashed, ready_to_step, infoVars, kindVars, objects, space,
                   m_position, entryVars, cameraVars, applied, th, retry>>

\* line 318: the query raises, and the exception leaves mainloop
QueryRaise ==
    /\ pc = "l318"
    /\ pc' = "crashed"
    /\ crashed' = "query"
    /\ UNCHANGED <<flagVars, infoVars, kindVars, engineVars, dragVars, entryVars,
                   cameraVars, queryVars, applied, th, retry>>

\* MOUSEMOTION to p
MouseMotion(p) ==
    /\ pc = "events"
    /\ m_position' = p
    /\ UNCHANGED <<pc, crashed, flagVars, infoVars, kindVars, engineVars, active_shape,
                   pulling, entryVars, cameraVars, queryVars, applied, th, retry>>

\* MOUSEBUTTONUP at p, up to the computed impulse (lines 327-341)
MouseButtonUp(p) ==
    /\ pc = "events"
    /\ IF ~pulling
       THEN UNCHANGED <<pc, crashed, pulling, applied>>
       ELSE /\ pulling' = FALSE
            /\ IF active_shape = None
               THEN \* line 337: None has no attribute body
                    /\ pc' = "crashed"
                    /\ crashed' = "AttributeError"
                    /\ UNCHANGED applied
               ELSE LET point1 == bodies[active_shape].pos
                        point2 == ReleasePoint(p)
                        a == bodies[active_shape].angle
                        i == LaunchImpulse(point1, point2, a)
                    IN /\ applied' = [body |-> active_shape, pos |-> p, p1 |-> point1,
                                      p2 |-> point2, angle |-> a, x |-> i[1], y |-> i[2]]
                       /\ pc' = "l342"
                       /\ UNCHANGED crashed
    /\ UNCHANGED <<flagVars, infoVars, kindVars, engineVars, active_shape, m_position,
                   entryVars, cameraVars, queryVars, th, retry>>

\* ApplyImpulse with a fault seeded: the selection is dropped with the drag
ApplyImpulse_Deselect ==
    /\ pc = "l342"
    /\ applied' = NoImpulse
    /\ active_shape' = None
    /\ pc' = "events"
    /\ UNCHANGED <<crashed, flagVars, infoVars, kindVars, engineVars, pulling, m_position,
                   entryVars, cameraVars, queryVars, th, retry>>

\* line 342: active_body.apply_impulse_at_local_point(impulse)
ApplyImpulse ==
    /\ pc = "l342"
    /\ applied' = NoImpulse
    /\ pc' = "events"
    /\ UNCHANGED <<crashed, flagVars, infoVars, kindVars, engineVars, dragVars,
                   entryVars, cameraVars, queryVars, th, retry>>

\* lines 344-347, with the movement keys held
BeginFrame(keys) ==
    /\ pc = "events"
    /\ ready_to_step' = TRUE
    /\ camera' = handle_camera_movement(keys)
    /\ camera_transform' = handle_camera_transform(keys)
    /\ pc' = "l348"
    /\ UNCHANGED <<crashed, during_query, infoVars, kindVars, engineVars, dragVars,
                   entryVars, queryVars, applied, th, retry>>

\* deque.rotate(1) and deque.rotate(-1)
RotateRight(q) == <<q[Len(q)]>> \o SubSeq(q, 1, Len(q) - 1)
RotateLeft(q) == Tail(q) \o <<Head(q)>>

IdleThreads == {t \in Threads : th[t].pc = "idle"}
FirstIdle == CHOOSE t \in IdleThreads : \A u \in IdleThreads : t <= u

\* a press of the Create or Remove button starts its command on a thread
Started(first) == [IdleThread EXCEPT !.pc = first, !.shape = selected_object]

\* lines 162-166; a count that has reached FPS * 3 stays there
InfoFrameDrawn ==
    IF show_info /\ info_frame < FPS * 3 THEN info_frame + 1 ELSE info_frame
ShowInfoDrawn == show_info /\ InfoFrameDrawn < FPS * 3

\* line 348, __draw_widgets, with the button pressed during this pass
DrawWidgets(press) ==
    /\ pc = "l348"
    /\ pc' = "l350"
    /\ info_frame' = InfoFrameDrawn
    /\ show_info' = ShowInfoDrawn
    /\ IF press = "create"
       THEN /\ IdleThreads # {}
            /\ th' = [th EXCEPT ![FirstIdle] = Started("c195")]
            /\ UNCHANGED kindVars
       ELSE IF press = "remove"
       THEN /\ IdleThreads # {}
            /\ th' = [th EXCEPT ![FirstIdle] = Started("r219")]
            /\ UNCHANGED kindVars
       ELSE IF press = "up"
       THEN \* __previous_object
            /\ object_queue' = RotateRight(object_queue)
            /\ selected_object' = Head(object_queue')
            /\ UNCHANGED th
       ELSE IF press = "down"
       THEN \* __next_object
            /\ object_queue' = RotateLeft(object_queue)
            /\ selected_object' = Head(object_queue')
            /\ UNCHANGED th
       ELSE UNCHANGED <<th, kindVars>>
    /\ UNCHANGED <<crashed, flagVars, label_info, engineVars, dragVars, entryVars,
                   cameraVars, queryVars, applied, retry>>

\* line 362 reads self.__m_position, an attribute only MOUSEMOTION creates
OverlayFails == active_shape # None /\ pulling /\ m_position = <<>>

\* lines 350-365: the selection overlay, then space.step
StepSpace ==
    /\ pc = "l350"
    /\ IF OverlayFails
       THEN \* AttributeError at line 362
            /\ pc' = "crashed"
            /\ crashed' = "AttributeError"
       ELSE /\ pc' = "l366"
            /\ UNCHANGED crashed
    /\ UNCHANGED <<flagVars, infoVars, kindVars, engineVars, dragVars, entryVars,
                   cameraVars, queryVars, applied, th, retry>>

\* lines 366-368
EndFrame ==
    /\ pc = "l366"
    /\ ready_to_step' = FALSE
    /\ pc' = "events"
    /\ UNCHANGED <<crashed, during_query, infoVars, kindVars, engineVars, dragVars,
                   entryVars, cameraVars, queryVars, applied, th, retry>>

(***************************************************************************)
(* __create(shape), on thread t.                                           *)
(***************************************************************************)
\* CreateGuard with a fault seeded: the query flag is forgotten
CreateGuard_StepOnly(t) ==
    /\ th[t].pc = "c195"
    /\ IF ready_to_step
       THEN /\ show_info' = TRUE
            /\ label_info' = MSG_CREATE_BUSY
            /\ th' = [th EXCEPT ![t] = IdleThread]
       ELSE /\ th' = [th EXCEPT ![t].pc = "c198"]
            /\ UNCHANGED <<show_info, label_info>>
    /\ UNCHANGED <<pc, crashed, flagVars, info_frame, kindVars, engineVars, dragVars,
                   entryVars, cameraVars, queryVars, applied, retry>>

\* lines 195-197
CreateGuard(t) ==
    /\ th[t].pc = "c195"
    /\ IF ready_to_step \/ during_query
       THEN /\ show_info' = TRUE
            /\ label_info' = MSG_CREATE_BUSY
            /\ th' = [th EXCEPT ![t] = IdleThread]
       ELSE /\ th' = [th EXCEPT ![t].pc = "c198"]
            /\ UNCHANGED <<show_info, label_info>>
    /\ UNCHANGED <<pc, crashed, flagVars, info_frame, kindVars, engineVars, dragVars,
                   entryVars, cameraVars, queryVars, applied, retry>>

\* line 198
CreateElif(t) ==
    /\ th[t].pc = "c198"
    /\ th' = [th EXCEPT ![t] = IF ~ready_to_step /\ ~during_query
                                 THEN [th[t] EXCEPT !.pc = "c199"]
                                 ELSE IdleThread]
    /\ UNCHANGED <<pc, crashed, flagVars, infoVars, kindVars, engineVars, dragVars,
                   entryVars, cameraVars, queryVars, applied, retry>>

\* lines 199-202
CreateValidate(t) ==
    /\ th[t].pc = "c199"
    /\ IF AnyEmpty
       THEN /\ show_info' = TRUE
            /\ label_info' = MSG_FILL_ALL
            /\ th' = [th EXCEPT ![t] = IdleThread]
            /\ retry' = IF retry = "none" THEN "failed" ELSE retry
       ELSE /\ th' = [th EXCEPT ![t].pc = "c203"]
            /\ UNCHANGED <<show_info, label_info, retry>>
    /\ UNCHANGED <<pc, crashed, flagVars, info_frame, kindVars, engineVars, dragVars,
                   entryVars, cameraVars, queryVars, applied>>

\* lines 203-215; int() of a text emptied since line 199 ends the thread
CreateObject(t) ==
    /\ th[t].pc = "c203"
    /\ IF \E e \in Entries \ {E_name} : entry_text[e] = <<>>
       THEN /\ th' = [th EXCEPT ![t] = IdleThread]
            /\ UNCHANGED <<infoVars, engineVars>>
       ELSE /\ HasFreeId(ObstacleIds)
            /\ bodies' = [bodies EXCEPT ![NewId(ObstacleIds)] =
                  StaticObstacle(<<AsInt(entry_text[E_pos_x]), AsInt(entry_text[E_pos_y])>>,
                                 AsInt(entry_text[E_multiplier]))]
            /\ objects' = Append(objects, [name |-> entry_text[E_name], id |-> NewId(ObstacleIds),
                                           kind |-> th[t].shape])
            /\ show_info' = FALSE
            /\ label_info' = ""
            /\ th' = [th EXCEPT ![t].pc = "c216", ![t].tmp = NewId(ObstacleIds)]
            /\ UNCHANGED <<info_frame, space>>
    /\ UNCHANGED <<pc, crashed, flagVars, kindVars, dragVars, entryVars, cameraVars,
                   queryVars, applied, retry>>

\* CreateAdd with a fault seeded: the body never reaches the space
CreateAdd_Dropped(t) ==
    /\ th[t].pc = "c216"
    /\ th' = [th EXCEPT ![t] = IdleThread]
    /\ retry' = IF retry = "failed" THEN "retried" ELSE retry
    /\ UNCHANGED <<pc, crashed, flagVars, infoVars, kindVars, engineVars, dragVars,
                   entryVars, cameraVars, queryVars, applied>>

\* line 216
CreateAdd(t) ==
    /\ th[t].pc = "c216"
    /\ space' = Append(space, th[t].tmp)
    /\ th' = [th EXCEPT ![t] = IdleThread]
    /\ retry' = IF retry = "failed" THEN "retried" ELSE retry
    /\ UNCHANGED <<pc, crashed, flagVars, infoVars, kindVars, objects, bodies, dragVars,
                   entryVars, cameraVars, queryVars, applied>>

(***************************************************************************)
(* __remove(), on thread t.                                                *)
(***************************************************************************)
\* lines 219-221
RemoveGuard(t) ==
    /\ th[t].pc = "r219"
    /\ IF ready_to_step \/ during_query
       THEN /\ show_info' = TRUE
            /\ label_info' = MSG_REMOVE_BUSY
            /\ th' = [th EXCEPT ![t] = IdleThread]
       ELSE /\ th' = [th EXCEPT ![t].pc = "r222"]
            /\ UNCHANGED <<show_info, label_info>>
    /\ UNCHANGED <<pc, crashed, flagVars, info_frame, kindVars, engineVars, dragVars,
                   entryVars, cameraVars, queryVars, applied, retry>>

\* line 222
RemoveElif(t) ==
    /\ th[t].pc = "r222"
    /\ th' = [th EXCEPT ![t] = IF ~ready_to_step /\ ~during_query
                                 THEN [th[t] EXCEPT !.pc = "r223"]
                                 ELSE IdleThread]
    /\ UNCHANGED <<pc, crashed, flagVars, infoVars, kindVars, engineVars, dragVars,
                   entryVars, cameraVars, queryVars, applied, retry>>

\* lines 223-229
RemoveValidate(t) ==
    /\ th[t].pc = "r223"
    /\ IF entry_text[E_name] = <<>>
       THEN /\ show_info' = TRUE
            /\ label_info' = MSG_FILL_NAME
            /\ th' = [th EXCEPT ![t] = IdleThread]
       ELSE /\ show_info' = FALSE
            /\ label_info' = ""
            /\ th' = [th EXCEPT ![t].pc = "r230", ![t].name = entry_text[E_name],
                                ![t].idx = 1]
    /\ UNCHANGED <<pc, crashed, flagVars, info_frame, kindVars, engineVars, dragVars,
                   entryVars, cameraVars, queryVars, applied, retry>>

\* objects.remove(object): the list without its element at position i
RemoveAt(s, i) == SubSeq(s, 1, i - 1) \o SubSeq(s, i + 1, Len(s))

\* lines 230-233: one turn of the loop, whose iterator is at position idx;
\* space.remove of a shape the space does not hold ends the thread
RemoveLoop(t) ==
    /\ th[t].pc = "r230"
    /\ LET i == th[t].idx IN
       IF i > Len(objects)
       THEN /\ th' = [th EXCEPT ![t] = IdleThread]
            /\ UNCHANGED engineVars
       ELSE IF objects[i].name # th[t].name
       THEN /\ th' = [th EXCEPT ![t].idx = i + 1]
            /\ UNCHANGED engineVars
       ELSE IF objects[i].id \notin EngineIds
       THEN /\ th' = [th EXCEPT ![t] = IdleThread]
            /\ UNCHANGED engineVars
       ELSE /\ space' = Without(space, objects[i].id)
            /\ objects' = RemoveAt(objects, i)
            /\ bodies' = [bodies EXCEPT ![objects[i].id] = NoBody]
            /\ th' = [th EXCEPT ![t].idx = i + 1, ![t].found = TRUE]
    /\ UNCHANGED <<pc, crashed, flagVars, infoVars, kindVars, dragVars, entryVars,
                   cameraVars, queryVars, applied, retry>>

ThreadStep(t) ==
    \/ CreateGuard(t)
    \/ CreateElif(t)
    \/ CreateValidate(t)
    \/ CreateObject(t)
    \/ CreateAdd(t)
    \/ RemoveGuard(t)
    \/ RemoveElif(t)
    \/ RemoveValidate(t)
    \/ RemoveLoop(t)

(***************************************************************************)
(* Specifications.  Spec is the whole program; the others drive it with a  *)
(* part of the inputs.                                                     *)
(***************************************************************************)
EntryPoints == {<<450, 190>>, <<450, 230>>, <<450, 270>>, <<550, 270>>}
Pointers == EntryPoints \cup {<<100, 100>>, <<0, 0>>, <<-10, 0>>}
Keys == {"ESCAPE", "BACKSPACE", "c", "A", "5", "0"}
HeldKeys == {"", "a", "d", "w", "s", "SPACE", "zoom_in", "zoom_out", "turn_left", "turn_right"}
Buttons == {"none", "create", "remove", "up", "down"}

Next ==
    \/ Quit
    \/ \E k \in Keys, p \in Pointers : KeyDown(k, p)
    \/ \E p \in Pointers : MouseButtonDown(p)
    \/ QueryBegin
    \/ QueryReturn
    \/ QueryRaise
    \/ \E p \in Pointers : MouseMotion(p)
    \/ \E p \in Pointers : MouseButtonUp(p)
    \/ ApplyImpulse
    \/ \E keys \in HeldKeys : BeginFrame(keys)
    \/ \E press \in Buttons : DrawWidgets(press)
    \/ StepSpace
    \/ EndFrame
    \/ \E t \in Threads : ThreadStep(t)

Spec == Init /\ [][Next]_vars

\* the lifecycle commands: the entries are filled in and the buttons pressed
LifeKeys == {"ESCAPE", "BACKSPACE", "A", "5"}

LifeButtons == {"none", "create", "remove"}
LifePointers == {<<450, 190>>, <<450, 270>>}

\* the multiplier and the y position have been typed in already
InitLife ==
    /\ pc = "events"
    /\ crashed = "none"
    /\ ready_to_step = FALSE
    /\ during_query = FALSE
    /\ show_info = FALSE
    /\ info_frame = 0
    /\ label_info = ""
    /\ selected_object = "Circle"
    /\ object_queue = <<"Circle", "Square">>
    /\ objects = <<>>
    /\ space = <<1>>
    /\ bodies = [i \in BodyIds |-> IF i = 1 THEN Projectile(<<100, 100>>, ProjectileRadius)
                                   ELSE NoBody]
    /\ active_shape = None
    /\ pulling = FALSE
    /\ m_position = <<>>
    /\ entry_text = [e \in Entries |-> IF e \in {E_multiplier, E_pos_y} THEN <<"5">> ELSE <<>>]
    /\ entry_status = [e \in Entries |-> FALSE]
    /\ camera = <<0, 0>>
    /\ camera_transform = NoTransform
    /\ q_position = <<0, 0>>
    /\ q_bodies = <<>>
    /\ applied = NoImpulse
    /\ th = [t \in Threads |-> IdleThread]
    /\ retry = "none"

NextLife ==
    \/ Quit
    \/ \E k \in LifeKeys : KeyDown(k, <<450, 190>>)
    \/ \E p \in LifePointers : MouseButtonDown(p)
    \/ QueryBegin
    \/ QueryReturn
    \/ QueryRaise
    \/ BeginFrame("")
    \/ \E press \in LifeButtons : DrawWidgets(press)
    \/ StepSpace
    \/ EndFrame
    \/ \E t \in Threads : ThreadStep(t)

SpecLife == InitLife /\ [][NextLife]_vars

\* the pointer and the keyboard: a circle named A of radius 5 has been created
\* at (0, 0), and no button is pressed any more
DragPointers == {<<100, 100>>, <<0, 0>>, <<-10, 0>>, <<450, 190>>}
DragKeys == {"ESCAPE", "BACKSPACE", "c"}
DragHeldKeys == {"", "d", "SPACE"}
\* where the mouse is when a key goes down
DragKeyPointers == {<<0, 0>>, <<450, 190>>}

InitDrag ==
    /\ pc = "events"
    /\ crashed = "none"
    /\ ready_to_step = FALSE
    /\ during_query = FALSE
    /\ show_info = FALSE
    /\ info_frame = 0
    /\ label_info = ""
    /\ selected_object = "Circle"
    /\ object_queue = <<"Circle", "Square">>
    /\ objects = <<[name |-> <<"A">>, id |-> MaxProjectiles + 1, kind |-> "Circle"]>>
    /\ space = <<1, MaxProjectiles + 1>>
    /\ bodies = [i \in BodyIds |->
                   IF i = 1 THEN Projectile(<<100, 100>>, ProjectileRadius)
                   ELSE IF i = MaxProjectiles + 1 THEN StaticObstacle(<<0, 0>>, 5)
                   ELSE NoBody]
    /\ active_shape = None
    /\ pulling = FALSE
    /\ m_position = <<>>
    /\ entry_text = [e \in Entries |-> IF e = E_name THEN <<"A">>
                                        ELSE IF e = E_multiplier THEN <<"5">> ELSE <<"0">>]
    /\ entry_status = [e \in Entries |-> FALSE]
    /\ camera = <<0, 0>>
    /\ camera_transform = NoTransform
    /\ q_position = <<0, 0>>
    /\ q_bodies = <<>>
    /\ applied = NoImpulse
    /\ th = [t \in Threads |-> IdleThread]
    /\ retry = "none"

NextDrag ==
    \/ Quit
    \/ \E k \in DragKeys, p \in DragKeyPointers :
          /\ KeyDown(k, p)
          /\ Cardinality({b \in SeqIds(space') : IsCandidate(b)'}) <= MaxDragProjectiles
    \/ \E p \in DragPointers : MouseButtonDown(p)
    \/ QueryBegin
    \/ QueryReturn
    \/ QueryRaise
    \/ MouseMotion(<<100, 100>>)
    \/ \E p \in DragPointers : MouseButtonUp(p)
    \/ ApplyImpulse
    \/ \E keys \in DragHeldKeys : BeginFrame(keys)
    \/ DrawWidgets("none")
    \/ StepSpace
    \/ EndFrame

SpecDrag == InitDrag /\ [][NextDrag]_vars

\* the camera: it is panned, zoomed and turned between presses on the
\* projectile and beside it
ViewPointers == {<<100, 100>>, <<0, 0>>}
ViewHeldKeys == {"", "a", "d", "w", "s", "SPACE", "zoom_in", "turn_left"}

NextView ==
    \/ \E p \in ViewPointers : MouseButtonDown(p)
    \/ QueryBegin
    \/ QueryReturn
    \/ MouseMotion(<<100, 100>>)
    \/ \E keys \in ViewHeldKeys : BeginFrame(keys)
    \/ DrawWidgets("none")
    \/ StepSpace
    \/ EndFrame

SpecView == Init /\ [][NextView]_vars

\* two projectiles that overlap: C with the mouse at (110, 100) puts a second
\* one over the first, and the pointer is pressed where both are
TiePointers == {<<105, 100>>, <<80, 100>>, <<0, 0>>}
TieKeys == {"c", "BACKSPACE"}

NextTie ==
    \/ \E k \in TieKeys : KeyDown(k, <<110, 100>>)
    \/ \E p \in TiePointers : MouseButtonDown(p)
    \/ QueryBegin
    \/ QueryReturn
    \/ MouseMotion(<<100, 100>>)
    \/ \E p \in TiePointers : MouseButtonUp(p)
    \/ ApplyImpulse
    \/ BeginFrame("")
    \/ DrawWidgets("none")
    \/ StepSpace
    \/ EndFrame

SpecTie == Init /\ [][NextTie]_vars

TypeOK ==
    /\ pc \in {"events", "l317", "l318", "l342", "l348", "l350", "l366", "stopped", "crashed"}
    /\ active_shape \in BodyIds \cup {None}

(***************************************************************************)
(* Properties.                                                             *)
(***************************************************************************)
\* thread t takes a step of its command
Steps(t) == th'[t] # th[t]

\* C1: a create or remove whose guard (line 195 / 219) finds stepInProgress
\* or queryInProgress true fails: the message is shown, the command ends, and
\* the tracked list and the engine are as before.
C1_LifecycleGuard ==
    [][\A t \in Threads :
         (th[t].pc \in {"c195", "r219"} /\ (ready_to_step \/ during_query) /\ Steps(t))
         => /\ show_info'
            /\ label_info' = (IF th[t].pc = "c195" THEN MSG_CREATE_BUSY ELSE MSG_REMOVE_BUSY)
            /\ th'[t].pc = "idle"
            /\ objects' = objects /\ space' = space /\ bodies' = bodies]_vars

\* C1 witness: the refusal is on screen while a tracked obstacle exists
C1_Witness ==
    /\ show_info
    /\ label_info \in {MSG_CREATE_BUSY, MSG_REMOVE_BUSY}
    /\ Len(objects) > 0

\* C2: no body or shape enters or leaves the engine at a moment when
\* stepInProgress or queryInProgress is true.
C2_NoMutationWhileBusy ==
    [][SeqIds(space') # SeqIds(space) => ~ready_to_step /\ ~during_query]_vars

\* C3: a create that reaches validation (line 199) with a required field empty
\* fails with the fill-all-fields message and commits nothing: the tracked
\* list, the engine and the thread's own object are untouched.
C3_ValidationFailure ==
    [][\A t \in Threads :
         (th[t].pc = "c199" /\ (\E e \in Entries : Len(entry_text[e]) = 0) /\ Steps(t))
         => /\ show_info'
            /\ label_info' = MSG_FILL_ALL
            /\ th'[t] = IdleThread
            /\ objects' = objects /\ space' = space /\ bodies' = bodies]_vars

\* C3 witness: after a validation failure a create has gone through
C3_Witness ==
    /\ retry = "retried"
    /\ Len(objects) > 0
    /\ \A i \in 1..Len(objects) : objects[i].id \in SeqIds(space)

\* C4: a remove that finds no tracked object of the given name reports the
\* failure to the user and leaves the tracked list and the engine unchanged.
C4_NotFoundReported ==
    [][\A t \in Threads :
         (th[t].pc = "r230" /\ th[t].idx > Len(objects) /\ ~th[t].found /\ Steps(t))
         => /\ show_info'
            /\ objects' = objects /\ space' = space /\ bodies' = bodies]_vars

\* C5: the tracked-object list holds at most one object per name.
C5_UniqueNames ==
    \A i, j \in 1..Len(objects) : i # j => objects[i].name # objects[j].name

\* C6: the selected body is absent or a dynamic body.
C6_SelectedIsDynamic ==
    active_shape # None => bodies[active_shape].type = "DYNAMIC"

\* C6 witness: the hit test has ended and has selected a body at a point
\* that lies inside a static obstacle of the engine as well
C6_Witness ==
    /\ active_shape # None
    /\ pulling
    /\ pc = "events"
    /\ Inside(q_position, active_shape)
    /\ \E b \in SeqIds(space) :
          /\ bodies[b].type = "STATIC"
          /\ LET d == Sub(q_position, bodies[b].pos) IN
             d[1] * d[1] + d[2] * d[2] < bodies[b].radius * bodies[b].radius

\* C7: queryInProgress is true only inside a point query; once the hit test
\* has ended, by a return or by an error, it is false.
C7_QueryGuardReleased ==
    during_query => pc = "l318"

\* C8: the frame loop does not end by a failure of its own handlers: it
\* never dies of an error raised by the input or lifecycle handling.
C8_NoFatalError ==
    crashed # "AttributeError"

\* C9: while a text entry has the focus, the camera does not move and no
\* drag starts: no body is selected or re-oriented, isPulling does not rise.
C9_FocusBlocksInput ==
    [][(\E e \in Entries : entry_status[e])
         => /\ camera' = camera
            /\ (pulling' => pulling)
            /\ active_shape' \in {active_shape, None}
            /\ \A b \in BodyIds : bodies'[b].angle = bodies[b].angle]_vars

\* the release the impulse-direction claim is about: body at (0, 0), angle 0,
\* release world point (-10, 0)
C10_Case ==
    /\ applied.body # None
    /\ applied.p1 = <<0, 0>>
    /\ applied.angle = <<1, 0>>
    /\ applied.p2 = <<-10, 0>>

\* C10 as stated: in that case the impulse has a positive x-component and a
\* zero y-component.
C10_Original ==
    C10_Case => applied.x > 0 /\ applied.y = 0

\* C10 amended: in that case the impulse is (-10000, 0): a negative
\* x-component, toward the release point, and a zero y-component.
C10_ImpulseDirection ==
    C10_Case => applied.x = -10000 /\ applied.y = 0

\* C10 witness: that release has happened
C10_Witness ==
    C10_Case /\ pc = "l342" /\ ~pulling /\ bodies[applied.body].pos = <<0, 0>>

\* screen points of the 600 x 600 viewport: its corners, its centre and
\* points between
ViewportPoints == {<<x, y>> : x \in {0, 1, 300, 599}, y \in {0, 299, 599}}

Hits == SelectSeq(space, LAMBDA b : IsCandidate(b) /\ Inside(q_position, b))

\* C13: when the hit test of a press ends with no body found, no body is
\* selected and no drag is active.
C13_NoOpDrag ==
    [][(pc = "l318" /\ pc' = "events" /\ Hits = <<>>)
         => (active_shape' = None /\ ~pulling')]_vars

\* C14: a body leaves the engine through Backspace only when it is the
\* selected body and no drag is active, and the selection is then cleared.
C14_DeleteOutsideDrag ==
    [][(\E b \in SeqIds(space) : b \notin SeqIds(space'))
         => /\ ~pulling
            /\ active_shape # None
            /\ SeqIds(space) \ SeqIds(space') = {active_shape}
            /\ active_shape' = None]_vars

\* C15: when the hit test of a press ends, the selected body is the first
\* dynamic body, in the engine's order, that contains the pressed point, and
\* the hit test turns no other body.
C15_FirstWins ==
    [][/\ (pc = "l318" /\ pc' = "events" /\ Hits # <<>>) => active_shape' = Head(Hits)
       /\ \A b \in BodyIds :
             (pc = "l318" /\ Hits # <<>> /\ bodies'[b].angle # bodies[b].angle)
             => b = Head(Hits)]_vars

\* thread t ends its command with a message put on screen
Raises(t) ==
    /\ Steps(t)
    /\ th[t].pc \in {"c195", "c199", "r219", "r223"}
    /\ th'[t].pc = "idle"
    /\ show_info'

\* C16: the frames of a message are counted from the frame it is raised in:
\* whenever a command puts a message on screen, the count starts at zero, so
\* that the message stays for FPS * 3 frames.
C16_DurationFromRaise ==
    [][\A t \in Threads : Raises(t) => info_frame' = 0]_vars

C18_RemoveAll ==
    [][\A t \in Threads :
         (th[t].pc = "r230" /\ th'[t].pc = "idle" /\ th[t].found)
         => \A i \in 1..Len(objects') : objects'[i].name # th[t].name]_vars

\* C19: while no command is running, the tracked obstacles are exactly the
\* static bodies of the engine.
C19_InSync ==
    (\A t \in Threads : th[t].pc = "idle")
    => ObjectIds = {b \in EngineIds : bodies[b].type = "STATIC"}

\* C19 witness: two creates and a remove of the first obstacle have
\* completed, and a validation has failed on the way
C19_Witness ==
    /\ \A t \in Threads : th[t].pc = "idle"
    /\ Len(objects) = 1
    /\ objects[1].id = MaxProjectiles + 2
    /\ objects[1].id \in EngineIds
    /\ retry # "none"

\* C20: while an entry has the focus, a key press neither adds a body to the
\* engine nor removes one, and leaves the selection as it is.
C20_FocusBlocksKeys ==
    [][\A k \in DragKeys, p \in DragKeyPointers :
         (AnyStatus /\ KeyDown(k, p))
         => (space' = space /\ active_shape' = active_shape)]_vars
====
